---- MODULE Spec2Model ----
(***************************************************************************)
(* context-bridge: a request-scoped server store (lib/bridge.server.tsx),  *)
(* its serialization into a <script id="__CONTEXT_BRIDGE_STORE__"> element, *)
(* the one-time client hydration (lib/bridge.client.ts), and the React     *)
(* context bridge of createBridge<T>().                                    *)
(*                                                                         *)
(* JavaScript values are tagged records.  A string is a sequence of        *)
(* symbols; a JSON text is a sequence of tokens.  An object is the         *)
(* sequence of its own <<key, value>> properties in insertion order.       *)
(***************************************************************************)
EXTENDS Integers, Sequences, FiniteSets, TLC

\* ------------------------------------------------------------------ bounds
\* Provider renders per request that the model follows.
MaxRenders == 2
\* Hook calls per client session that the model follows.
MaxCalls == 3
\* Depth of nested BridgeProvider elements above a component.
MaxDepth == 2

\* ------------------------------------------------------- JavaScript values
Undefined == [t |-> "undefined"]
Null      == [t |-> "null"]
Func      == [t |-> "function"]
Sym       == [t |-> "symbol"]
\* An object that reaches itself through a property (a circular reference).
Circular  == [t |-> "circular"]
Bool(b)   == [t |-> "boolean", b |-> b]
Num(n)    == [t |-> "number", n |-> n]
Str(s)    == [t |-> "string", s |-> s]
Obj(ps)   == [t |-> "object", o |-> ps]

EmptyObject == Obj(<<>>)

\* Symbols of strings.  Quote and Backslash are the two characters JSON
\* escapes; EndTag stands for the character run "</script>".
Quote     == "\""
Backslash == "\\"
EndTag    == "</script>"

\* ------------------------------------------------------------ JSON.stringify
\* A property whose value is undefined, a function or a symbol is left out.
Omitted(v) == v.t \in {"undefined", "function", "symbol"}

RECURSIVE HasCycle(_)
\* JSON.stringify throws a TypeError on a circular structure.
HasCycle(v) ==
    CASE v.t = "circular" -> TRUE
      [] v.t = "object"   -> \E i \in 1..Len(v.o) : HasCycle(v.o[i][2])
      [] OTHER            -> FALSE

RECURSIVE QuoteChars(_)
QuoteChars(s) ==
    IF s = <<>> THEN <<>>
    ELSE (IF Head(s) \in {Quote, Backslash} THEN <<Backslash, Head(s)>>
          ELSE <<Head(s)>>) \o QuoteChars(Tail(s))

\* QuoteJSONString: the text of a string literal.
QuoteJSONString(s) == <<Quote>> \o QuoteChars(s) \o <<Quote>>

NumToken(n) == IF n = 0 THEN "0" ELSE "1"

RECURSIVE SerializeValue(_), SerializeMembers(_, _)
\* The text of a value that is neither omitted nor circular.
SerializeValue(v) ==
    CASE v.t = "null"    -> <<"null">>
      [] v.t = "boolean" -> IF v.b THEN <<"true">> ELSE <<"false">>
      [] v.t = "number"  -> <<NumToken(v.n)>>
      [] v.t = "string"  -> QuoteJSONString(v.s)
      [] v.t = "object"  -> <<"{">> \o SerializeMembers(v.o, TRUE) \o <<"}">>

SerializeMembers(ps, first) ==
    IF ps = <<>> THEN <<>>
    ELSE IF Omitted(Head(ps)[2]) THEN SerializeMembers(Tail(ps), first)
    ELSE (IF first THEN <<>> ELSE <<",">>)
         \o QuoteJSONString(Head(ps)[1]) \o <<":">> \o SerializeValue(Head(ps)[2])
         \o SerializeMembers(Tail(ps), FALSE)

\* JSON.stringify(data) for an object `data`: either it throws or it
\* returns the text.
JSONStringify(v) ==
    IF HasCycle(v) THEN [threw |-> TRUE, text |-> <<>>]
    ELSE [threw |-> FALSE, text |-> SerializeValue(v)]

\* ---------------------------------------------------------------- JSON.parse
ParseFail == [ok |-> FALSE, val |-> Undefined, rest |-> <<>>]
ParseOk(v, rest) == [ok |-> TRUE, val |-> v, rest |-> rest]

RECURSIVE ParseChars(_, _)
\* The characters of a string literal after its opening quote.
ParseChars(toks, acc) ==
    IF toks = <<>> THEN ParseFail
    ELSE IF Head(toks) = Quote THEN ParseOk(acc, Tail(toks))
    ELSE IF Head(toks) = Backslash
         THEN IF Len(toks) >= 2 /\ toks[2] \in {Quote, Backslash}
              THEN ParseChars(SubSeq(toks, 3, Len(toks)), Append(acc, toks[2]))
              ELSE ParseFail
    ELSE ParseChars(Tail(toks), Append(acc, Head(toks)))

\* CreateDataProperty: a repeated key keeps its place and takes the new value.
RECURSIVE DefineProperty(_, _, _)
DefineProperty(ps, k, v) ==
    IF ps = <<>> THEN << <<k, v>> >>
    ELSE IF Head(ps)[1] = k THEN << <<k, v>> >> \o Tail(ps)
    ELSE <<Head(ps)>> \o DefineProperty(Tail(ps), k, v)

RECURSIVE ParseValue(_), ParseMembers(_, _)
ParseValue(toks) ==
    IF toks = <<>> THEN ParseFail
    ELSE CASE Head(toks) = "null"  -> ParseOk(Null, Tail(toks))
           [] Head(toks) = "true"  -> ParseOk(Bool(TRUE), Tail(toks))
           [] Head(toks) = "false" -> ParseOk(Bool(FALSE), Tail(toks))
           [] Head(toks) = "0"     -> ParseOk(Num(0), Tail(toks))
           [] Head(toks) = "1"     -> ParseOk(Num(1), Tail(toks))
           [] Head(toks) = Quote   ->
                LET r == ParseChars(Tail(toks), <<>>)
                IN  IF r.ok THEN ParseOk(Str(r.val), r.rest) ELSE ParseFail
           [] Head(toks) = "{"     ->
                IF Len(toks) >= 2 /\ toks[2] = "}"
                THEN ParseOk(EmptyObject, SubSeq(toks, 3, Len(toks)))
                ELSE ParseMembers(Tail(toks), <<>>)
           [] OTHER                -> ParseFail

\* One "key":value member, then either "," and the next member or "}".
ParseMembers(toks, acc) ==
    IF toks = <<>> \/ Head(toks) # Quote THEN ParseFail
    ELSE LET k == ParseChars(Tail(toks), <<>>)
         IN  IF ~k.ok \/ k.rest = <<>> \/ Head(k.rest) # ":" THEN ParseFail
             ELSE LET v == ParseValue(Tail(k.rest))
                  IN  IF ~v.ok \/ v.rest = <<>> THEN ParseFail
                      ELSE LET ps == DefineProperty(acc, k.val, v.val)
                           IN  CASE Head(v.rest) = "}" -> ParseOk(Obj(ps), Tail(v.rest))
                                 [] Head(v.rest) = "," -> ParseMembers(Tail(v.rest), ps)
                                 [] OTHER              -> ParseFail

\* JSON.parse(text): throws a SyntaxError unless the whole text is one value.
JSONParse(text) ==
    LET r == ParseValue(text)
    IN  IF r.ok /\ r.rest = <<>> THEN [threw |-> FALSE, val |-> r.val]
        ELSE [threw |-> TRUE, val |-> Undefined]

\* A value JSON represents as itself: null, booleans, numbers, strings and
\* objects of such values.
RECURSIVE IsJSONValue(_)
IsJSONValue(v) ==
    CASE v.t \in {"null", "boolean", "number", "string"} -> TRUE
      [] v.t = "object" -> \A i \in 1..Len(v.o) : IsJSONValue(v.o[i][2])
      [] OTHER -> FALSE

\* ------------------------------------------------------------ property access
HasOwn(v, k) == v.t = "object" /\ \E i \in 1..Len(v.o) : v.o[i][1] = k
OwnValue(v, k) == v.o[CHOOSE i \in 1..Len(v.o) : v.o[i][1] = k][2]

\* Object.prototype (and the prototypes of the primitive wrappers) carry
\* methods such as toString.
PrototypeKeys == {<<"toString">>}

\* store[bridgeId]: own property first, then the prototype chain.
PropertyGet(v, k) ==
    IF HasOwn(v, k) THEN OwnValue(v, k)
    ELSE IF v.t \in {"object", "string", "number", "boolean"} /\ k \in PrototypeKeys
         THEN Func
    ELSE Undefined

\* ToBoolean, as used by `if (x)` and `x || y`.
Truthy(v) ==
    CASE v.t \in {"undefined", "null"} -> FALSE
      [] v.t = "boolean" -> v.b
      [] v.t = "number"  -> v.n # 0
      [] v.t = "string"  -> v.s # <<>>
      [] OTHER           -> TRUE

\* ------------------------------------------------------------------ the server
Requests == {"r1", "r2"}
Development == "development"
Production  == "production"

\* Bridge ids.  ToStringId is the id "toString", which is also the name of
\* a method every object inherits.
UserId     == <<"user">>
ThemeId    == <<"theme">>
ToStringId == <<"toString">>

\* Map.prototype.set: a present key keeps its place, a new key is appended.
RECURSIVE MapSet(_, _, _)
MapSet(m, k, v) ==
    IF m = <<>> THEN << <<k, v>> >>
    ELSE IF Head(m)[1] = k THEN << <<k, v>> >> \o Tail(m)
    ELSE <<Head(m)>> \o MapSet(Tail(m), k, v)

\* Object.fromEntries(store)
ObjectFromEntries(m) == Obj(m)

\* One Map at module level, shared by every request.
GetRequestStore_ModuleLevel(r) == "r1"

\* cache(() => new Map()): React memoizes the Map per request, so the Map a
\* render sees is the one of the request it belongs to.
GetRequestStore(r) == r

\* Provider, step 1: the development-only check warns and does nothing else.
ProviderWarns(env, data) ==
    env = Development /\ data.t \in {"undefined", "function", "symbol"}

\* Provider has no throw statement.
ProviderThrows(env, data) == FALSE

NotRendered == [kind |-> "none", data |-> EmptyObject, text |-> <<>>, log |-> {}]

SerializerError    == "ContextBridge Error: Unable to serialize data."
SerializerErrorMsg == "ContextBridge: Serialization error"

\* The NODE_ENV test left out: a failed serialization throws everywhere.
BridgeSerializerResult_AlwaysThrows(store, env) ==
    LET data == ObjectFromEntries(store)
        js   == JSONStringify(data)
    IN  IF Len(store) = 0
        THEN [kind |-> "null", data |-> data, text |-> <<>>, log |-> {}]
        ELSE IF js.threw
        THEN [kind |-> "threw", data |-> data, text |-> <<>>,
              log |-> {SerializerError}]
        ELSE [kind |-> "script", data |-> data, text |-> js.text, log |-> {}]

\* The size test left out: an empty store is serialized like any other.
BridgeSerializerResult_NoSizeTest(store, env) ==
    LET data == ObjectFromEntries(store)
        js   == JSONStringify(data)
    IN  IF js.threw
        THEN IF env = Development
             THEN [kind |-> "threw", data |-> data, text |-> <<>>,
                   log |-> {SerializerError}]
             ELSE [kind |-> "null", data |-> data, text |-> <<>>,
                   log |-> {SerializerErrorMsg}]
        ELSE [kind |-> "script", data |-> data, text |-> js.text, log |-> {}]

\* BridgeSerializer: what it renders ("null": nothing, "script": the script
\* element with `text` as its raw inner HTML, "threw": it threw) and what it
\* logs with console.error.
BridgeSerializerResult(store, env) ==
    LET data == ObjectFromEntries(store)
        js   == JSONStringify(data)
    IN  IF Len(store) = 0
        THEN [kind |-> "null", data |-> data, text |-> <<>>, log |-> {}]
        ELSE IF js.threw
        THEN IF env = Development
             THEN [kind |-> "threw", data |-> data, text |-> <<>>,
                   log |-> {SerializerError}]
             ELSE [kind |-> "null", data |-> data, text |-> <<>>,
                   log |-> {SerializerErrorMsg}]
        ELSE [kind |-> "script", data |-> data, text |-> js.text, log |-> {}]

\* ------------------------------------------------------------------ the client
RECURSIVE ScriptTextContent(_)
\* The HTML parser ends a script element at the first "</script>" of its raw
\* content; textContent is what precedes it.
ScriptTextContent(html) ==
    IF html = <<>> \/ Head(html) = EndTag THEN <<>>
    ELSE <<Head(html)>> \o ScriptTextContent(Tail(html))

NoScript == [present |-> FALSE, text |-> <<>>]
ScriptElement(text) == [present |-> TRUE, text |-> text]

ParseError == "ContextBridge Error: Unable to parse data from server."

\* getHydratedStore(): the store it returns, the clientStore it leaves, how
\* often it looked the element up and parsed, and what it logged.
GetHydratedStore(cs, doc, hasWindow) ==
    IF Truthy(cs)
    THEN [ret |-> cs, cs |-> cs, lookups |-> 0, parses |-> 0, log |-> {}]
    ELSE IF ~hasWindow
    THEN [ret |-> EmptyObject, cs |-> cs, lookups |-> 0, parses |-> 0, log |-> {}]
    ELSE IF doc.present /\ doc.text # <<>>
    THEN LET p == JSONParse(doc.text)
         IN  IF p.threw
             THEN [ret |-> EmptyObject, cs |-> EmptyObject, lookups |-> 1,
                   parses |-> 1, log |-> {ParseError}]
             ELSE [ret |-> IF Truthy(p.val) THEN p.val ELSE EmptyObject,
                   cs |-> p.val, lookups |-> 1, parses |-> 1, log |-> {}]
    ELSE [ret |-> EmptyObject, cs |-> EmptyObject, lookups |-> 1, parses |-> 0,
          log |-> {}]

\* useBridgeData, after useMemo has produced `store`.
UseBridgeData(store, bridgeId, defaultValue) ==
    LET data == PropertyGet(store, bridgeId)
    IN  IF data # Undefined THEN data ELSE defaultValue

\* ------------------------------------------------------------- createBridge
RECURSIVE UseContext(_, _)
\* useContext(BridgeContext): the value of the nearest enclosing Provider of
\* this context, or the default given to createContext (undefined).
UseContext(stack, bridge) ==
    IF stack = <<>> THEN Undefined
    ELSE IF stack[Len(stack)][1] = bridge THEN stack[Len(stack)][2]
    ELSE UseContext(SubSeq(stack, 1, Len(stack) - 1), bridge)

UseBridgeError == "useBridge must be used within a BridgeProvider"

\* useBridge()
UseBridge(stack, bridge) ==
    LET context == UseContext(stack, bridge)
    IN  IF context = Undefined
        THEN [bridge |-> bridge, threw |-> TRUE, msg |-> UseBridgeError,
              val |-> Undefined, stack |-> stack]
        ELSE [bridge |-> bridge, threw |-> FALSE, msg |-> "",
              val |-> context, stack |-> stack]

\* ----------------------------------------------------------------- the inputs
ProviderIds == {UserId, ThemeId}
HookIds     == {UserId, ThemeId, ToStringId}
DefaultValue == Str(<<"default">>)
Instances   == {"c1", "c2"}

\* Data given to Providers when one request is followed to the client.
PageData ==
    { Str(<<"a">>), Str(<<Quote>>), Str(<<EndTag>>), Undefined, Circular,
      Obj(<< <<<<"onClick">>, Func>> >>) }

\* Data given to Providers when two requests render concurrently.
ConcurrentData == { Str(<<"a">>), Num(1) }

\* Texts the script element is given when the document is not the server's.
BlobTexts ==
    { <<>>, <<"null">>, <<"{">>, <<"1">>,
      SerializeValue(Obj(<< <<UserId, Str(<<"a">>)>> >>)),
      SerializeValue(Obj(<< <<UserId, Null>>, <<ThemeId, Num(0)>> >>)) }

Bridges    == {"b1", "b2"}
BridgeData == { Undefined, Null, Str(<<"a">>), Str(<<"b">>) }

\* ------------------------------------------------------------------ the state
VARIABLES
    nodeEnv,        \* process.env.NODE_ENV
    requestStore,   \* the Map of each request
    emitted,        \* what BridgeSerializer rendered for each request
    rendered,       \* per request, the Provider renders: id, data, outcome,
                    \* position n in the request's render order, and
                    \* whether BridgeSerializer had rendered before (late)
    consoleWarn,    \* bridge ids console.warn was called for on the server
    serverErrors,   \* messages of console.error on the server
    page,           \* the request whose output the browser loaded
    document,       \* the element with id __CONTEXT_BRIDGE_STORE__
    clientStore,    \* the module-level clientStore
    memo,           \* useMemo's value per component instance and hook
    lookups,        \* calls of document.getElementById
    parses,         \* calls of JSON.parse
    calls,          \* hook calls
    lastCall,       \* the latest hook call
    returned,       \* per hook, the values it has returned
    browserErrors,  \* messages of console.error in the browser
    providerStack,  \* BridgeProviders enclosing the component being rendered
    lastUseBridge,  \* the latest useBridge call
    ssrStore,       \* clientStore of the module as loaded by the server
    lastSsrCall     \* the latest hook call of a server render pass

serverVars == <<nodeEnv, requestStore, emitted, rendered, consoleWarn,
                serverErrors>>
clientVars == <<page, document, clientStore, memo, lookups, parses, calls,
                lastCall, returned, browserErrors>>
bridgeVars == <<providerStack, lastUseBridge>>
ssrVars == <<ssrStore, lastSsrCall>>
vars == <<serverVars, clientVars, bridgeVars, ssrVars>>

NotMemoized == [t |-> "unset"]
NoCall      == [inst |-> "none", id |-> <<>>, result |-> Undefined,
                store |-> EmptyObject, hydrated |-> FALSE, doc |-> NoScript]
NoSsrCall   == [id |-> <<>>, result |-> Undefined, store |-> EmptyObject]
NoUseBridge == [bridge |-> "none", threw |-> FALSE, msg |-> "", val |-> Undefined,
                stack |-> <<>>]

Init ==
    /\ nodeEnv \in {Development, Production}
    /\ requestStore = [r \in Requests |-> <<>>]
    /\ emitted = [r \in Requests |-> NotRendered]
    /\ rendered = [r \in Requests |-> {}]
    /\ consoleWarn = {}
    /\ serverErrors = {}
    /\ page = "none"
    /\ document = NoScript
    /\ clientStore = Null
    /\ memo = [i \in Instances, h \in HookIds |-> NotMemoized]
    /\ lookups = 0
    /\ parses = 0
    /\ calls = 0
    /\ lastCall = NoCall
    /\ returned = [h \in HookIds |-> {}]
    /\ browserErrors = {}
    /\ providerStack = <<>>
    /\ lastUseBridge = NoUseBridge
    /\ ssrStore = Null
    /\ lastSsrCall = NoSsrCall

\* ---------------------------------------------------------------- the actions
\* A Provider made by createBridgeProvider(bridgeId) renders with `data`
\* during request r.
Provider(r, bridgeId, data) ==
    /\ Cardinality(rendered[r]) < MaxRenders
    /\ consoleWarn' = IF ProviderWarns(nodeEnv, data)
                      THEN consoleWarn \cup {bridgeId} ELSE consoleWarn
    /\ requestStore' = [requestStore EXCEPT
                          ![GetRequestStore(r)] = MapSet(@, bridgeId, data)]
    /\ rendered' = [rendered EXCEPT ![r] = @ \cup
                        {[id |-> bridgeId, data |-> data,
                          threw |-> ProviderThrows(nodeEnv, data),
                          n |-> Cardinality(rendered[r]) + 1,
                          late |-> emitted[r].kind # "none"]}]
    /\ UNCHANGED <<ssrVars, nodeEnv, emitted, serverErrors, clientVars, bridgeVars>>

\* BridgeSerializer renders during request r.
BridgeSerializer(r) ==
    /\ emitted[r].kind = "none"
    /\ LET res == BridgeSerializerResult(requestStore[GetRequestStore(r)], nodeEnv)
       IN  /\ emitted' = [emitted EXCEPT ![r] = res]
           /\ serverErrors' = serverErrors \cup res.log
    /\ UNCHANGED <<ssrVars, nodeEnv, requestStore, rendered, consoleWarn, clientVars,
                   bridgeVars>>

\* The browser parses the HTML of request r; a render that threw has none.
LoadPage(r) ==
    /\ page = "none"
    /\ emitted[r].kind \in {"null", "script"}
    /\ page' = r
    /\ document' = IF emitted[r].kind = "script"
                   THEN ScriptElement(ScriptTextContent(emitted[r].text))
                   ELSE NoScript
    /\ UNCHANGED <<ssrVars, serverVars, clientStore, memo, lookups, parses, calls,
                   lastCall, returned, browserErrors, bridgeVars>>

\* Something other than the library sets or removes the script element.
SetDocument(doc) ==
    /\ document # doc
    /\ document' = doc
    /\ UNCHANGED <<ssrVars, serverVars, page, clientStore, memo, lookups, parses, calls,
                   lastCall, returned, browserErrors, bridgeVars>>

\* Component instance `inst` renders in the browser and calls the hook made
\* by createBridgeHook(bridgeId, defaultValue).
HookCall(inst, bridgeId, defaultValue) ==
    /\ calls < MaxCalls
    /\ LET first == memo[inst, bridgeId] = NotMemoized
           h     == GetHydratedStore(clientStore, document, TRUE)
           store == IF first THEN h.ret ELSE memo[inst, bridgeId]
           res   == UseBridgeData(store, bridgeId, defaultValue)
       IN  /\ memo' = [memo EXCEPT ![inst, bridgeId] = store]
           /\ clientStore' = IF first THEN h.cs ELSE clientStore
           /\ lookups' = IF first THEN lookups + h.lookups ELSE lookups
           /\ parses' = IF first THEN parses + h.parses ELSE parses
           /\ browserErrors' = IF first THEN browserErrors \cup h.log
                               ELSE browserErrors
           /\ lastCall' = [inst |-> inst, id |-> bridgeId, result |-> res,
                           store |-> store,
                           hydrated |-> first /\ h.lookups = 1,
                           doc |-> document]
           /\ returned' = [returned EXCEPT ![bridgeId] = @ \cup {res}]
    /\ calls' = calls + 1
    /\ UNCHANGED <<ssrVars, serverVars, page, document, bridgeVars>>

\* A client component renders on the server, where window is undefined, and
\* calls the hook made by createBridgeHook(bridgeId, defaultValue).  Each
\* server render is a new component instance, so useMemo evaluates.
ServerHookCall(bridgeId, defaultValue) ==
    /\ LET h == GetHydratedStore(ssrStore, NoScript, FALSE)
       IN  /\ ssrStore' = h.cs
           /\ lastSsrCall' = [id |-> bridgeId,
                              result |-> UseBridgeData(h.ret, bridgeId, defaultValue),
                              store |-> h.ret]
    /\ UNCHANGED <<serverVars, clientVars, bridgeVars>>

\* Rendering descends into a BridgeProvider of `bridge` with `data`.
EnterBridgeProvider(bridge, data) ==
    /\ Len(providerStack) < MaxDepth
    /\ providerStack' = Append(providerStack, <<bridge, data>>)
    /\ UNCHANGED <<ssrVars, serverVars, clientVars, lastUseBridge>>

\* Rendering leaves the innermost BridgeProvider.
LeaveBridgeProvider ==
    /\ providerStack # <<>>
    /\ providerStack' = SubSeq(providerStack, 1, Len(providerStack) - 1)
    /\ UNCHANGED <<ssrVars, serverVars, clientVars, lastUseBridge>>

\* The component being rendered calls useBridge of `bridge`.
CallUseBridge(bridge) ==
    /\ lastUseBridge' = UseBridge(providerStack, bridge)
    /\ UNCHANGED <<ssrVars, serverVars, clientVars, providerStack>>

\* ---------------------------------------------------------- the specifications
\* One request rendered on the server and then read in the browser.
NextPage ==
    \/ \E k \in ProviderIds, v \in PageData : page = "none" /\ Provider("r1", k, v)
    \/ BridgeSerializer("r1")
    \/ LoadPage("r1")
    \/ \E k \in HookIds : page # "none" /\ HookCall("c1", k, DefaultValue)

SpecPage == Init /\ [][NextPage]_vars

\* Two requests rendering concurrently on the server.
NextServer ==
    \/ \E r \in Requests, k \in ProviderIds, v \in ConcurrentData : Provider(r, k, v)
    \/ \E r \in Requests : BridgeSerializer(r)

SpecServer == Init /\ [][NextServer]_vars

\* A browser session over a document that changes freely.
NextClient ==
    \/ \E t \in BlobTexts : SetDocument(ScriptElement(t))
    \/ SetDocument(NoScript)
    \/ \E i \in Instances, k \in HookIds : HookCall(i, k, DefaultValue)

SpecClient == Init /\ [][NextClient]_vars

\* A client tree of BridgeProviders and a component calling useBridge.
NextBridge ==
    \/ \E b \in Bridges, v \in BridgeData : EnterBridgeProvider(b, v)
    \/ LeaveBridgeProvider
    \/ \E b \in Bridges : CallUseBridge(b)

SpecBridge == Init /\ [][NextBridge]_vars

\* Server render passes of client components, and a browser session.
NextSsr ==
    \/ \E k \in HookIds : ServerHookCall(k, DefaultValue)
    \/ \E t \in BlobTexts : SetDocument(ScriptElement(t))
    \/ \E k \in HookIds : HookCall("c1", k, DefaultValue)

SpecSsr == Init /\ [][NextSsr]_vars

Next == NextPage \/ NextServer \/ NextClient \/ NextBridge \/ NextSsr
Spec == Init /\ [][Next]_vars

\* ------------------------------------------------------------------ the claims
Called == lastCall.inst # "none"

\* C1: when a Provider of id k rendered with a JSON value v (not undefined),
\* BridgeSerializer rendered afterwards and emitted the script element, and
\* the browser loaded that page, the hook of id k returns v.
C1_RoundTrip ==
    (/\ Called
     /\ page # "none"
     /\ emitted[page].kind = "script"
     /\ HasOwn(emitted[page].data, lastCall.id)
     /\ IsJSONValue(OwnValue(emitted[page].data, lastCall.id)))
    => lastCall.result = OwnValue(emitted[page].data, lastCall.id)

\* C2: a hook returns its default whenever hydration found no entry for its
\* id (element absent or empty, text unparsable with the error logged, or id
\* not in the blob), and the stored value only when the blob has the entry.
C2_DefaultFallback ==
    Called =>
        /\ lastCall.result = IF HasOwn(lastCall.store, lastCall.id)
                             THEN OwnValue(lastCall.store, lastCall.id)
                             ELSE DefaultValue
        /\ lastCall.hydrated =>
             LET d == lastCall.doc
                 p == JSONParse(d.text)
                 filled == d.present /\ d.text # <<>>
                 found == filled /\ ~p.threw /\ HasOwn(p.val, lastCall.id)
             IN  /\ lastCall.result = IF found THEN OwnValue(p.val, lastCall.id)
                                      ELSE DefaultValue
                 /\ (filled /\ p.threw) => ParseError \in browserErrors

\* C3: in one browser session the script element is looked up and its text
\* parsed at most once, whatever the hooks, instances and blob text.
C3_HydratesOnce == lookups <= 1 /\ parses <= 1

\* C4: the script element emitted for a request has an entry for every
\* bridge id whose Provider rendered (with a JSON value) during the request,
\* in whatever order the Providers and BridgeSerializer rendered.
C4_CollectsAll ==
    \A r \in Requests :
        (/\ emitted[r].kind # "none"
         /\ rendered[r] # {}
         /\ \A p \in rendered[r] : IsJSONValue(p.data))
        => /\ emitted[r].kind = "script"
           /\ \A p \in rendered[r] : HasOwn(JSONParse(emitted[r].text).val, p.id)

\* C5: the blob emitted for a request holds only entries that a Provider of
\* that same request rendered with, under any interleaving of the requests.
C5_RequestScoped ==
    \A r \in Requests :
        emitted[r].kind = "script" =>
            LET blob == JSONParse(emitted[r].text).val
            IN  \A i \in 1..Len(blob.o) :
                    \E p \in rendered[r] : p.id = blob.o[i][1] /\ p.data = blob.o[i][2]

\* Two requests, each with its own entries, have both emitted their blob.
C5_Witness ==
    /\ emitted["r1"].kind = "script"
    /\ emitted["r2"].kind = "script"
    /\ Len(emitted["r1"].data.o) = 2
    /\ Len(emitted["r2"].data.o) = 1
    /\ rendered["r1"] \cap rendered["r2"] = {}

\* C6: in development a Provider rendered with data that is not
\* JSON-serializable throws.
C6_ProviderThrows ==
    nodeEnv = Development =>
        \A r \in Requests : \A p \in rendered[r] : ~IsJSONValue(p.data) => p.threw

\* C7: when JSON.stringify of the request store throws, BridgeSerializer
\* throws in development; elsewhere it logs, throws nothing and renders no
\* script element, so the page has none and every hook falls back.
C7_SerializationFailure ==
    \A r \in Requests :
        (emitted[r].kind # "none" /\ JSONStringify(emitted[r].data).threw) =>
            IF nodeEnv = Development
            THEN emitted[r].kind = "threw" /\ SerializerError \in serverErrors
            ELSE /\ emitted[r].kind = "null"
                 /\ emitted[r].text = <<>>
                 /\ SerializerErrorMsg \in serverErrors
                 /\ page = r =>
                        /\ document = NoScript
                        /\ \A k \in ProviderIds : returned[k] \subseteq {DefaultValue}

\* Outside development a store with a circular value and a serializable one
\* was serialized, the page was loaded and the hook of the serializable
\* bridge was called.
C7_Witness ==
    /\ nodeEnv = Production
    /\ page = "r1"
    /\ emitted["r1"].kind = "null"
    /\ HasOwn(emitted["r1"].data, ThemeId)
    /\ OwnValue(emitted["r1"].data, ThemeId) = Circular
    /\ HasOwn(emitted["r1"].data, UserId)
    /\ OwnValue(emitted["r1"].data, UserId) = Str(<<"a">>)
    /\ returned[UserId] = {DefaultValue}

\* C8: within one browser session any two calls of the same hook return the
\* same value, whatever happens to the document between them.
C8_SameValue == \A k \in HookIds : Cardinality(returned[k]) <= 1

\* C9: with Providers of pairwise distinct ids, all rendered with JSON values
\* before BridgeSerializer, each hook returns the value given to the Provider
\* of its own id.
C9_Independent ==
    (/\ Called
     /\ page # "none"
     /\ \A p \in rendered[page] : IsJSONValue(p.data) /\ HasOwn(emitted[page].data, p.id)
     /\ \A p, q \in rendered[page] : p.id = q.id => p = q)
    => \A p \in rendered[page] : p.id = lastCall.id => lastCall.result = p.data

\* C10: useBridge throws 'useBridge must be used within a BridgeProvider' when
\* no BridgeProvider of its bridge encloses the caller, and otherwise returns
\* the data of the nearest enclosing one of its bridge, whatever the data and
\* whatever BridgeProviders of other bridges are around.
C10_UseBridge ==
    lastUseBridge.bridge # "none" =>
        LET u == lastUseBridge
            own == {i \in 1..Len(u.stack) : u.stack[i][1] = u.bridge}
            nearest == CHOOSE i \in own : \A j \in own : j <= i
        IN  IF own = {} THEN u.threw /\ u.msg = UseBridgeError
            ELSE ~u.threw /\ u.val = u.stack[nearest][2]

\* The entries JSON.stringify keeps: those whose data is not left out.
KeptEntries(store) == SelectSeq(store, LAMBDA e : ~Omitted(e[2]))

\* `text` is a JSON object with exactly the keys of `entries`, in their
\* order, each JSON value being the entry's data.
IsBlobOf(text, entries) ==
    LET p == JSONParse(text)
    IN  /\ ~p.threw
        /\ p.val.t = "object"
        /\ Len(p.val.o) = Len(entries)
        /\ \A i \in 1..Len(entries) :
              /\ p.val.o[i][1] = entries[i][1]
              /\ IsJSONValue(entries[i][2]) => p.val.o[i][2] = entries[i][2]

SerializerRenders(r) == emitted[r].kind = "none" /\ emitted'[r].kind # "none"
FailsOutsideDevelopment(store) ==
    HasCycle(Obj(store)) /\ nodeEnv # Development

\* C11 as stated: BridgeSerializer renders nothing exactly when the store is
\* empty or serialization fails outside development, and otherwise renders
\* one script element whose content is the JSON object of the store's
\* entries at that moment, one key per bridge id.
C11_AsStated ==
    [][\A r \in Requests : SerializerRenders(r) =>
          LET store == requestStore[r]
              e == emitted'[r]
          IN  IF store = <<>> \/ FailsOutsideDevelopment(store)
              THEN e.kind = "null"
              ELSE e.kind = "script" /\ IsBlobOf(e.text, store)]_vars

\* C11 as amended: it renders nothing exactly when the store is empty or
\* serialization fails outside development; it throws when serialization
\* fails in development; otherwise it renders one script element whose
\* content is the JSON object of the store's entries at that moment, one key
\* per bridge id whose data is not undefined, a function or a symbol.
C11_SerializerOutput ==
    [][\A r \in Requests : SerializerRenders(r) =>
          LET store == requestStore[r]
              e == emitted'[r]
          IN  IF store = <<>> \/ FailsOutsideDevelopment(store)
              THEN e.kind = "null" /\ e.text = <<>>
              ELSE IF HasCycle(Obj(store))
              THEN e.kind = "threw"
              ELSE e.kind = "script" /\ IsBlobOf(e.text, KeptEntries(store))]_vars

\* A store of two bridges, one of them with data that serialization leaves
\* out, was rendered as a script element with one key.
C11_Witness ==
    /\ emitted["r1"].kind = "script"
    /\ Len(emitted["r1"].data.o) = 2
    /\ \E i \in 1..2 : Omitted(emitted["r1"].data.o[i][2])
    /\ Len(JSONParse(emitted["r1"].text).val.o) = 1

\* C12: a hook called where window is undefined returns its default for
\* every bridge id and leaves that module's clientStore null; a later call
\* in the browser still looks the script element up.
C12_ServerPass ==
    /\ lastSsrCall.id # <<>> =>
          /\ lastSsrCall.result = DefaultValue
          /\ ssrStore = Null
    /\ calls >= 1 => lookups >= 1

\* C13: when several Providers of one bridge id rendered (with JSON values)
\* before BridgeSerializer, the blob holds exactly one entry for that id, the
\* data of the Provider that rendered last, and every hook of that id
\* returns that value.
C13_LastWriteWins ==
    page # "none" =>
        \A id \in ProviderIds :
            LET ps   == {p \in rendered[page] : p.id = id /\ ~p.late}
                last == CHOOSE p \in ps : \A q \in ps : q.n <= p.n
                blob == JSONParse(emitted[page].text)
            IN  (/\ Cardinality(ps) >= 2
                 /\ \A p \in rendered[page] : ~p.late => IsJSONValue(p.data))
                => /\ emitted[page].kind = "script"
                   /\ ~blob.threw
                   /\ Cardinality({i \in 1..Len(blob.val.o) : blob.val.o[i][1] = id}) = 1
                   /\ OwnValue(blob.val, id) = last.data
                   /\ (Called /\ lastCall.id = id) => lastCall.result = last.data
====
